---- MODULE Spec2Model ----
(***************************************************************************)
(* A model of goset (src/set.go): a Set is a map used as a membership      *)
(* table, a sync.RWMutex guarding it, and a reflect.Kind fixed by New.     *)
(* Every method is a sequence of steps of the goroutine that runs it; a    *)
(* goroutine's calls form a stack of frames, one per method being run.     *)
(***************************************************************************)
EXTENDS Integers, Sequences, FiniteSets, TLC

\* Longest argument list a caller passes to New, Add, Remove or Has.
MaxItems == 2
\* Int elements are 1..MaxInt.
MaxInt == 2
\* Calls each goroutine makes in the concurrent specification.
MaxCalls == 1
\* Items of a set at the start of a concurrent run of the two-set methods.
MaxLiveItems == 1
\* Calls of Add and Remove a goroutine makes beside one Union.
MaxChanges == 2

\* The reflect.Kind values the model draws from.
Kinds == {"Int", "Slice"}

\* Element values a caller can pass: ints, and one slice value (a slice is
\* a legal interface{} value but not a legal map key).
IntElems == {[kind |-> "Int", val |-> n] : n \in 1..MaxInt}
SliceElem == [kind |-> "Slice", val |-> 0]
Elems == IntElems \cup {SliceElem}

\* reflect.TypeOf(item).Kind()
KindOf(item) == item.kind

\* Whether the runtime can hash the value as a key of map[interface{}].
Hashable(item) == KindOf(item) # "Slice"

\* An argument list: items ...interface{}
Lists == UNION {[1..n -> Elems] : n \in 0..MaxItems}

Range(seq) == {seq[i] : i \in 1..Len(seq)}

\* A []interface{} handed over as ONE interface{} value, as in
\* s.typecheck(items): its dynamic type is []interface{}, of kind Slice.
AsInterface(items) == [kind |-> "Slice", val |-> Len(items)]

Goroutines == {1, 2}
\* The caller's variables holding *Set values.
Slots == {1, 2}
\* Sets a goroutine allocates while a call runs (results and temporaries).
Temps(g) == {10 * g + 1, 10 * g + 2, 10 * g + 3}
Ids == Slots \cup UNION {Temps(g) : g \in Goroutines}
\* The nil *Set.
NoSet == 0

VARIABLES
    heap,    \* heap[id]: the Set object: kind, m, and the state of its lock l
    stack,   \* stack[g]: the frames of the calls goroutine g is running
    hist,    \* hist[g]: g's current or last top-level call, its result, and
             \*          the tables (pre) and from (built) as the call found them
    from,    \* from[slot]: the call that built the set in the slot (its
             \*          operands, the values of its items), while neither the
             \*          set nor the operands have been changed since
    ncalls   \* ncalls[g]: top-level calls g has made (concurrent runs)

vars == <<heap, stack, hist, from, ncalls>>

(***************************************************************************)
(* The Set object and its RWMutex.                                         *)
(***************************************************************************)
\* type Set struct { m; l; kind }.  w is the goroutine holding l.Lock()
\* (0: none), r the number of l.RLock() holders.
SetObj(kind, m) == [live |-> TRUE, kind |-> kind, m |-> m, w |-> 0, r |-> 0]
Free == [live |-> FALSE, kind |-> "Int", m |-> {}, w |-> 0, r |-> 0]

\* sync.RWMutex: Lock waits for every holder, RLock for a writer only.
CanLock(o) == o.w = 0 /\ o.r = 0
CanRLock(o) == o.w = 0
Lock(h, id, g) == [h EXCEPT ![id].w = g]
\* An Unlock that does not release: the guard stays with its holder.
UnlockKept(h, id) == h
Unlock(h, id) == [h EXCEPT ![id].w = 0]
RLock(h, id) == [h EXCEPT ![id].r = @ + 1]
RUnlock(h, id) == [h EXCEPT ![id].r = @ - 1]

\* s.m[item] = struct{}{}  and  delete(s.m, item)
MapInsert(m, item) == m \cup {item}
MapDelete(m, item) == m \ {item}

\* typecheck(items ...interface{}): the first item of another kind fails it.
typecheck(kind, args) ==
    IF \E i \in 1..Len(args) : KindOf(args[i]) # kind
    THEN "TypeViolation" ELSE "nil"

\* typematch without its comparison: every pair of sets passes.  The two-set
\* methods owe their KindMismatch to the comparison alone.
typematchAlways(h, s, t) == "nil"

\* typematch(t): s.kind != t.kind
typematch(h, s, t) ==
    IF h[s].kind # h[t].kind THEN "KindMismatch" ELSE "nil"

\* The argument list as s.typecheck(items...) would hand it over: item by item.
SpreadArgs(items) == items

\* What Add, Remove and Has hand to typecheck: s.typecheck(items), the
\* slice itself as the single variadic argument.
CheckedArgs(items) == <<AsInterface(items)>>

(***************************************************************************)
(* Frames.                                                                 *)
(***************************************************************************)
\* What a call returns: error, bool, int, *Set, []interface{}.
Res(err, b, n, rs, l) == [err |-> err, b |-> b, n |-> n, rs |-> rs, l |-> l]
ResErr(err) == Res(err, FALSE, 0, NoSet, <<>>)
ResNil == ResErr("nil")

\* A frame: the method, where it is, its receiver s, its argument t, kind
\* and items, its locals (i, list, u, v, x, y) and the last callee's result.
Frame(fn, s, t, kind, items) ==
    [fn |-> fn, pc |-> "start", s |-> s, t |-> t, kind |-> kind,
     items |-> items, i |-> 1, list |-> <<>>, u |-> NoSet, v |-> NoSet,
     x |-> 0, y |-> 0, res |-> ResNil]

Top(g) == stack[g][Len(stack[g])]
At(g, fn, pc) ==
    /\ stack[g] # <<>>
    /\ Top(g).fn = fn
    /\ Top(g).pc = pc
SetTop(st, f) == [st EXCEPT ![Len(st)] = f]
Pop(st) == SubSeq(st, 1, Len(st) - 1)

\* The top frame moves to pc.
Goto(g, pc) == stack' = [stack EXCEPT ![g] = SetTop(@, [Top(g) EXCEPT !.pc = pc])]
\* The top frame becomes f.
Step(g, f) == stack' = [stack EXCEPT ![g] = SetTop(@, f)]
\* The top frame becomes f and calls callee.
Invoke(g, f, callee) == stack' = [stack EXCEPT ![g] = Append(SetTop(@, f), callee)]

\* The lowest set the goroutine has not allocated.
Alloc(g, h) ==
    CHOOSE id \in Temps(g) :
        /\ ~h[id].live
        /\ \A j \in Temps(g) : j < id => h[j].live
FreeTemps(g, h) == [id \in Ids |-> IF id \in Temps(g) THEN Free ELSE h[id]]

NoFrom == [op |-> "none", s |-> NoSet, t |-> NoSet, items |-> {}]
\* The slot x is written: what was built from it is no longer known to be.
Invalidate(f, x) ==
    [y \in Slots |-> IF y = x \/ f[y].s = x \/ f[y].t = x THEN NoFrom ELSE f[y]]

\* The top frame returns res, with h the heap its last step leaves. To a
\* calling frame the result is handed over; a top-level call ends: the
\* caller assigns a returned *Set to its variable hist[g].dst and drops
\* every other set the call allocated.
Return(g, h, res) ==
    IF Len(stack[g]) > 1
    THEN /\ stack' = [stack EXCEPT ![g] =
                         SetTop(Pop(@), [@[Len(@) - 1] EXCEPT !.res = res])]
         /\ heap' = h
         /\ UNCHANGED <<hist, from, ncalls>>
    ELSE LET c == hist[g]
             bound == res.rs # NoSet /\ c.dst # NoSet
             kept == IF bound
                     THEN [FreeTemps(g, h) EXCEPT
                              ![c.dst] = SetObj(h[res.rs].kind, h[res.rs].m)]
                     ELSE FreeTemps(g, h)
         IN  /\ stack' = [stack EXCEPT ![g] = <<>>]
             /\ heap' = kept
             /\ hist' = [hist EXCEPT ![g] =
                            [c EXCEPT !.done = TRUE, !.res = res,
                                      !.rkind = IF res.rs # NoSet THEN h[res.rs].kind ELSE "Int",
                                      !.rm = IF res.rs # NoSet THEN h[res.rs].m ELSE {}]]
             /\ from' = IF bound
                        THEN [Invalidate(from, c.dst) EXCEPT ![c.dst] =
                                 [op |-> c.fn,
                                  s |-> IF c.s = c.dst THEN NoSet ELSE c.s,
                                  t |-> IF c.t = c.dst THEN NoSet ELSE c.t,
                                  items |-> Range(c.items)]]
                        ELSE from
             /\ UNCHANGED ncalls

\* A runtime panic (hash of unhashable type): every frame of the goroutine
\* is unwound, its deferred Unlock/RUnlock having run (h), and the call ends
\* without a result.
Panic(g, h) ==
    /\ stack' = [stack EXCEPT ![g] = <<>>]
    /\ heap' = FreeTemps(g, h)
    /\ hist' = [hist EXCEPT ![g] = [@ EXCEPT !.done = TRUE, !.res = ResErr("panic")]]
    /\ UNCHANGED <<from, ncalls>>


(***************************************************************************)
(* New, Add, Remove, Has, Size, Clear, List.                               *)
(***************************************************************************)
\* Add: nothing to do for no items; typecheck before the lock is taken.
AddStart(g) ==
    /\ At(g, "Add", "start")
    /\ LET f == Top(g)
           err == typecheck(heap[f.s].kind, CheckedArgs(f.items))
       IN  IF Len(f.items) = 0 THEN Return(g, heap, ResNil)
           ELSE IF err # "nil" THEN Return(g, heap, ResErr(err))
           ELSE Goto(g, "lock") /\ UNCHANGED <<heap, hist, from, ncalls>>

\* s.l.Lock()
AddLock(g) ==
    /\ At(g, "Add", "lock")
    /\ CanLock(heap[Top(g).s])
    /\ heap' = Lock(heap, Top(g).s, g)
    /\ Goto(g, "loop")
    /\ UNCHANGED <<hist, from, ncalls>>

\* The loop of Add ending with the item it inserts: the items after it are
\* left out.
AddLoopEnds(g) ==
    /\ At(g, "Add", "loop")
    /\ LET f == Top(g)
       IN  /\ f.i <= Len(f.items)
           /\ Hashable(f.items[f.i])
           /\ heap' = [heap EXCEPT ![f.s].m = MapInsert(@, f.items[f.i])]
           /\ Step(g, [f EXCEPT !.i = Len(f.items) + 1])
    /\ UNCHANGED <<hist, from, ncalls>>

\* for _, item := range items { s.m[item] = struct{}{} }
AddLoop(g) ==
    /\ At(g, "Add", "loop")
    /\ LET f == Top(g)
       IN  /\ f.i <= Len(f.items)
           /\ Hashable(f.items[f.i])
           /\ heap' = [heap EXCEPT ![f.s].m = MapInsert(@, f.items[f.i])]
           /\ Step(g, [f EXCEPT !.i = @ + 1])
    /\ UNCHANGED <<hist, from, ncalls>>

\* s.m[item] with an unhashable item panics; the deferred Unlock runs.
AddPanic(g) ==
    /\ At(g, "Add", "loop")
    /\ LET f == Top(g)
       IN  /\ f.i <= Len(f.items)
           /\ ~Hashable(f.items[f.i])
           /\ Panic(g, Unlock(heap, f.s))

\* return nil, and the deferred s.l.Unlock()
AddReturn(g) ==
    /\ At(g, "Add", "loop")
    /\ Top(g).i > Len(Top(g).items)
    /\ Return(g, Unlock(heap, Top(g).s), ResNil)

RemoveStart(g) ==
    /\ At(g, "Remove", "start")
    /\ LET f == Top(g)
           err == typecheck(heap[f.s].kind, CheckedArgs(f.items))
       IN  IF Len(f.items) = 0 THEN Return(g, heap, ResNil)
           ELSE IF err # "nil" THEN Return(g, heap, ResErr(err))
           ELSE Goto(g, "lock") /\ UNCHANGED <<heap, hist, from, ncalls>>

RemoveLock(g) ==
    /\ At(g, "Remove", "lock")
    /\ CanLock(heap[Top(g).s])
    /\ heap' = Lock(heap, Top(g).s, g)
    /\ Goto(g, "loop")
    /\ UNCHANGED <<hist, from, ncalls>>

\* for _, item := range items { delete(s.m, item) }
RemoveLoop(g) ==
    /\ At(g, "Remove", "loop")
    /\ LET f == Top(g)
       IN  /\ f.i <= Len(f.items)
           /\ Hashable(f.items[f.i])
           /\ heap' = [heap EXCEPT ![f.s].m = MapDelete(@, f.items[f.i])]
           /\ Step(g, [f EXCEPT !.i = @ + 1])
    /\ UNCHANGED <<hist, from, ncalls>>

RemovePanic(g) ==
    /\ At(g, "Remove", "loop")
    /\ LET f == Top(g)
       IN  /\ f.i <= Len(f.items)
           /\ ~Hashable(f.items[f.i])
           /\ Panic(g, Unlock(heap, f.s))

RemoveReturn(g) ==
    /\ At(g, "Remove", "loop")
    /\ Top(g).i > Len(Top(g).items)
    /\ Return(g, Unlock(heap, Top(g).s), ResNil)

\* Has: false for no items; typecheck before the lock is taken.
HasStart(g) ==
    /\ At(g, "Has", "start")
    /\ LET f == Top(g)
           err == typecheck(heap[f.s].kind, CheckedArgs(f.items))
       IN  IF Len(f.items) = 0 THEN Return(g, heap, ResNil)
           ELSE IF err # "nil" THEN Return(g, heap, ResErr(err))
           ELSE Goto(g, "rlock") /\ UNCHANGED <<heap, hist, from, ncalls>>

\* s.l.RLock()
HasRLock(g) ==
    /\ At(g, "Has", "rlock")
    /\ CanRLock(heap[Top(g).s])
    /\ heap' = RLock(heap, Top(g).s)
    /\ Goto(g, "loop")
    /\ UNCHANGED <<hist, from, ncalls>>

\* if _, ok := s.m[item]; ok: the next item
HasLoop(g) ==
    /\ At(g, "Has", "loop")
    /\ LET f == Top(g)
       IN  /\ f.i <= Len(f.items)
           /\ Hashable(f.items[f.i])
           /\ f.items[f.i] \in heap[f.s].m
           /\ Step(g, [f EXCEPT !.i = @ + 1])
    /\ UNCHANGED <<heap, hist, from, ncalls>>

\* if _, ok := s.m[item]; !ok { return false, nil }
HasMiss(g) ==
    /\ At(g, "Has", "loop")
    /\ LET f == Top(g)
       IN  /\ f.i <= Len(f.items)
           /\ Hashable(f.items[f.i])
           /\ f.items[f.i] \notin heap[f.s].m
           /\ Return(g, RUnlock(heap, f.s), ResNil)

HasPanic(g) ==
    /\ At(g, "Has", "loop")
    /\ LET f == Top(g)
       IN  /\ f.i <= Len(f.items)
           /\ ~Hashable(f.items[f.i])
           /\ Panic(g, RUnlock(heap, f.s))

\* return true, nil
HasReturn(g) ==
    /\ At(g, "Has", "loop")
    /\ Top(g).i > Len(Top(g).items)
    /\ Return(g, RUnlock(heap, Top(g).s), Res("nil", TRUE, 0, NoSet, <<>>))

SizeRLock(g) ==
    /\ At(g, "Size", "start")
    /\ CanRLock(heap[Top(g).s])
    /\ heap' = RLock(heap, Top(g).s)
    /\ Goto(g, "read")
    /\ UNCHANGED <<hist, from, ncalls>>

\* return len(s.m)
SizeReturn(g) ==
    /\ At(g, "Size", "read")
    /\ Return(g, RUnlock(heap, Top(g).s),
              Res("nil", FALSE, Cardinality(heap[Top(g).s].m), NoSet, <<>>))

ClearLock(g) ==
    /\ At(g, "Clear", "start")
    /\ CanLock(heap[Top(g).s])
    /\ heap' = Lock(heap, Top(g).s, g)
    /\ Goto(g, "make")
    /\ UNCHANGED <<hist, from, ncalls>>

\* s.m = make(map[interface{}]struct{})
ClearReturn(g) ==
    /\ At(g, "Clear", "make")
    /\ Return(g, Unlock([heap EXCEPT ![Top(g).s].m = {}], Top(g).s), ResNil)

ListRLock(g) ==
    /\ At(g, "List", "start")
    /\ CanRLock(heap[Top(g).s])
    /\ heap' = RLock(heap, Top(g).s)
    /\ Goto(g, "loop")
    /\ UNCHANGED <<hist, from, ncalls>>

\* for item := range s.m { list = append(list, item) }, in the map's order,
\* which is any order.
ListLoop(g) ==
    /\ At(g, "List", "loop")
    /\ LET f == Top(g)
       IN  \E item \in heap[f.s].m \ Range(f.list) :
               Step(g, [f EXCEPT !.list = Append(@, item)])
    /\ UNCHANGED <<heap, hist, from, ncalls>>

ListReturn(g) ==
    /\ At(g, "List", "loop")
    /\ Range(Top(g).list) = heap[Top(g).s].m
    /\ Return(g, RUnlock(heap, Top(g).s), Res("nil", FALSE, 0, NoSet, Top(g).list))

\* s := &Set{kind: kind, m: make(...)}; s.Add(items...)
NewStart(g) ==
    /\ At(g, "New", "start")
    /\ LET f == Top(g)
           u == Alloc(g, heap)
       IN  /\ heap' = [heap EXCEPT ![u] = SetObj(f.kind, {})]
           /\ Invoke(g, [f EXCEPT !.pc = "ret", !.u = u],
                     Frame("Add", u, NoSet, f.kind, f.items))
    /\ UNCHANGED <<hist, from, ncalls>>

\* return s: what Add returned is dropped.
NewReturn(g) ==
    /\ At(g, "New", "ret")
    /\ Return(g, heap, Res("nil", FALSE, 0, Top(g).u, <<>>))

(***************************************************************************)
(* The methods built on them: Copy, Union, Merge, Separate, Intersection,  *)
(* Difference, SymmetricDifference, IsEqual, IsSubset, IsSuperset.         *)
(***************************************************************************)
\* A step that touches the goroutine's own frame only.
Local(g, f) == Step(g, f) /\ UNCHANGED <<heap, hist, from, ncalls>>
\* A method call: the frame goes on at f.pc when the callee has returned.
CallFn(g, f, callee) == Invoke(g, f, callee) /\ UNCHANGED <<heap, hist, from, ncalls>>
\* The frame of s.fn(items...), of s.fn(t), and of s.fn().
OnItems(fn, s, items) == Frame(fn, s, NoSet, "Int", items)
OnSet(fn, s, t) == Frame(fn, s, t, "Int", <<>>)
OnSelf(fn, s) == Frame(fn, s, NoSet, "Int", <<>>)
ResSet(rs) == Res("nil", FALSE, 0, rs, <<>>)
ResBool(b) == Res("nil", b, 0, NoSet, <<>>)

\* Copy: New(s.kind, s.List()...)
CopyStart(g) ==
    /\ At(g, "Copy", "start")
    /\ CallFn(g, [Top(g) EXCEPT !.pc = "list"], OnSelf("List", Top(g).s))

CopyNew(g) ==
    /\ At(g, "Copy", "list")
    /\ CallFn(g, [Top(g) EXCEPT !.pc = "ret"],
              Frame("New", NoSet, NoSet, heap[Top(g).s].kind, Top(g).res.l))

\* Copy handing back its receiver where the code hands back what New
\* returned.
CopyReturnSelf(g) ==
    /\ At(g, "Copy", "ret")
    /\ Return(g, heap, ResSet(Top(g).s))

CopyReturn(g) ==
    /\ At(g, "Copy", "ret")
    /\ Return(g, heap, ResSet(Top(g).res.rs))

\* Union: typematch, then t.List()
UnionStart(g) ==
    /\ At(g, "Union", "start")
    /\ LET f == Top(g)
           err == typematch(heap, f.s, f.t)
       IN  IF err # "nil" THEN Return(g, heap, ResErr(err))
           ELSE CallFn(g, [f EXCEPT !.pc = "listT"], OnSelf("List", f.t))

\* Union making u := New(s.kind), without the items of t.List().
UnionNewEmpty(g) ==
    /\ At(g, "Union", "listT")
    /\ CallFn(g, [Top(g) EXCEPT !.pc = "new"],
              Frame("New", NoSet, NoSet, heap[Top(g).s].kind, <<>>))

\* u := New(s.kind, t.List()...)
UnionNew(g) ==
    /\ At(g, "Union", "listT")
    /\ CallFn(g, [Top(g) EXCEPT !.pc = "new"],
              Frame("New", NoSet, NoSet, heap[Top(g).s].kind, Top(g).res.l))

\* s.List()
UnionList(g) ==
    /\ At(g, "Union", "new")
    /\ CallFn(g, [Top(g) EXCEPT !.pc = "listS", !.u = Top(g).res.rs],
              OnSelf("List", Top(g).s))

UnionRange(g) ==
    /\ At(g, "Union", "listS")
    /\ Local(g, [Top(g) EXCEPT !.pc = "loop", !.list = Top(g).res.l, !.i = 1])

\* The loop of Union without its u.Add(item): the items of s are passed over.
UnionLoopSkips(g) ==
    /\ At(g, "Union", "loop")
    /\ Top(g).i <= Len(Top(g).list)
    /\ Local(g, [Top(g) EXCEPT !.i = @ + 1])

\* for _, item := range s.List() { u.Add(item) }
UnionLoop(g) ==
    /\ At(g, "Union", "loop")
    /\ LET f == Top(g)
       IN  /\ f.i <= Len(f.list)
           /\ CallFn(g, [f EXCEPT !.i = @ + 1], OnItems("Add", f.u, <<f.list[f.i]>>))

UnionReturn(g) ==
    /\ At(g, "Union", "loop")
    /\ Top(g).i > Len(Top(g).list)
    /\ Return(g, heap, ResSet(Top(g).u))

\* Merge: typematch, then t.List()
MergeStart(g) ==
    /\ At(g, "Merge", "start")
    /\ LET f == Top(g)
           err == typematch(heap, f.s, f.t)
       IN  IF err # "nil" THEN Return(g, heap, ResErr(err))
           ELSE CallFn(g, [f EXCEPT !.pc = "list"], OnSelf("List", f.t))

MergeRange(g) ==
    /\ At(g, "Merge", "list")
    /\ Local(g, [Top(g) EXCEPT !.pc = "loop", !.list = Top(g).res.l, !.i = 1])

\* The loop of Merge without its s.Add(item): the items of t are passed over.
MergeLoopSkips(g) ==
    /\ At(g, "Merge", "loop")
    /\ Top(g).i <= Len(Top(g).list)
    /\ Local(g, [Top(g) EXCEPT !.i = @ + 1])

\* for _, item := range t.List() { s.Add(item) }
MergeLoop(g) ==
    /\ At(g, "Merge", "loop")
    /\ LET f == Top(g)
       IN  /\ f.i <= Len(f.list)
           /\ CallFn(g, [f EXCEPT !.i = @ + 1], OnItems("Add", f.s, <<f.list[f.i]>>))

MergeReturn(g) ==
    /\ At(g, "Merge", "loop")
    /\ Top(g).i > Len(Top(g).list)
    /\ Return(g, heap, ResNil)

SeparateStart(g) ==
    /\ At(g, "Separate", "start")
    /\ LET f == Top(g)
           err == typematch(heap, f.s, f.t)
       IN  IF err # "nil" THEN Return(g, heap, ResErr(err))
           ELSE CallFn(g, [f EXCEPT !.pc = "list"], OnSelf("List", f.t))

SeparateRange(g) ==
    /\ At(g, "Separate", "list")
    /\ Local(g, [Top(g) EXCEPT !.pc = "loop", !.list = Top(g).res.l, !.i = 1])

\* for _, item := range t.List() { s.Remove(item) }
SeparateLoop(g) ==
    /\ At(g, "Separate", "loop")
    /\ LET f == Top(g)
       IN  /\ f.i <= Len(f.list)
           /\ CallFn(g, [f EXCEPT !.i = @ + 1], OnItems("Remove", f.s, <<f.list[f.i]>>))

SeparateReturn(g) ==
    /\ At(g, "Separate", "loop")
    /\ Top(g).i > Len(Top(g).list)
    /\ Return(g, heap, ResNil)

\* Intersection: typematch, then u := New(s.kind)
IntersectionStart(g) ==
    /\ At(g, "Intersection", "start")
    /\ LET f == Top(g)
           err == typematch(heap, f.s, f.t)
       IN  IF err # "nil" THEN Return(g, heap, ResErr(err))
           ELSE CallFn(g, [f EXCEPT !.pc = "new"],
                       Frame("New", NoSet, NoSet, heap[f.s].kind, <<>>))

\* s.List()
IntersectionListS(g) ==
    /\ At(g, "Intersection", "new")
    /\ CallFn(g, [Top(g) EXCEPT !.pc = "listS", !.u = Top(g).res.rs],
              OnSelf("List", Top(g).s))

IntersectionRangeS(g) ==
    /\ At(g, "Intersection", "listS")
    /\ Local(g, [Top(g) EXCEPT !.pc = "loopS", !.list = Top(g).res.l, !.i = 1])

\* for _, item := range s.List() { ok, _ := t.Has(item)
IntersectionHasT(g) ==
    /\ At(g, "Intersection", "loopS")
    /\ LET f == Top(g)
       IN  /\ f.i <= Len(f.list)
           /\ CallFn(g, [f EXCEPT !.pc = "hasT"], OnItems("Has", f.t, <<f.list[f.i]>>))

\* The first loop of Intersection without its test of t.Has(item): every
\* item of s is added.
IntersectionAddSUntested(g) ==
    /\ At(g, "Intersection", "hasT")
    /\ CallFn(g, [Top(g) EXCEPT !.pc = "loopS", !.i = @ + 1],
              OnItems("Add", Top(g).u, <<Top(g).list[Top(g).i]>>))

\* if ok { u.Add(item) } }
IntersectionAddS(g) ==
    /\ At(g, "Intersection", "hasT")
    /\ LET f == Top(g)
           next == [f EXCEPT !.pc = "loopS", !.i = @ + 1]
       IN  IF f.res.b
           THEN CallFn(g, next, OnItems("Add", f.u, <<f.list[f.i]>>))
           ELSE Local(g, next)

\* t.List()
IntersectionListT(g) ==
    /\ At(g, "Intersection", "loopS")
    /\ Top(g).i > Len(Top(g).list)
    /\ CallFn(g, [Top(g) EXCEPT !.pc = "listT"], OnSelf("List", Top(g).t))

IntersectionRangeT(g) ==
    /\ At(g, "Intersection", "listT")
    /\ Local(g, [Top(g) EXCEPT !.pc = "loopT", !.list = Top(g).res.l, !.i = 1])

\* for _, item := range t.List() { ok, _ := s.Has(item)
IntersectionHasS(g) ==
    /\ At(g, "Intersection", "loopT")
    /\ LET f == Top(g)
       IN  /\ f.i <= Len(f.list)
           /\ CallFn(g, [f EXCEPT !.pc = "hasS"], OnItems("Has", f.s, <<f.list[f.i]>>))

\* if ok { u.Add(item) } }
IntersectionAddT(g) ==
    /\ At(g, "Intersection", "hasS")
    /\ LET f == Top(g)
           next == [f EXCEPT !.pc = "loopT", !.i = @ + 1]
       IN  IF f.res.b
           THEN CallFn(g, next, OnItems("Add", f.u, <<f.list[f.i]>>))
           ELSE Local(g, next)

IntersectionReturn(g) ==
    /\ At(g, "Intersection", "loopT")
    /\ Top(g).i > Len(Top(g).list)
    /\ Return(g, heap, ResSet(Top(g).u))

\* Difference: typematch, then u := New(s.kind)
DifferenceStart(g) ==
    /\ At(g, "Difference", "start")
    /\ LET f == Top(g)
           err == typematch(heap, f.s, f.t)
       IN  IF err # "nil" THEN Return(g, heap, ResErr(err))
           ELSE CallFn(g, [f EXCEPT !.pc = "new"],
                       Frame("New", NoSet, NoSet, heap[f.s].kind, <<>>))

DifferenceList(g) ==
    /\ At(g, "Difference", "new")
    /\ CallFn(g, [Top(g) EXCEPT !.pc = "list", !.u = Top(g).res.rs],
              OnSelf("List", Top(g).s))

DifferenceRange(g) ==
    /\ At(g, "Difference", "list")
    /\ Local(g, [Top(g) EXCEPT !.pc = "loop", !.list = Top(g).res.l, !.i = 1])

\* for _, item := range s.List() { ok, _ := t.Has(item)
DifferenceHas(g) ==
    /\ At(g, "Difference", "loop")
    /\ LET f == Top(g)
       IN  /\ f.i <= Len(f.list)
           /\ CallFn(g, [f EXCEPT !.pc = "has"], OnItems("Has", f.t, <<f.list[f.i]>>))

\* if !ok { u.Add(item) } }
DifferenceAdd(g) ==
    /\ At(g, "Difference", "has")
    /\ LET f == Top(g)
           next == [f EXCEPT !.pc = "loop", !.i = @ + 1]
       IN  IF ~f.res.b
           THEN CallFn(g, next, OnItems("Add", f.u, <<f.list[f.i]>>))
           ELSE Local(g, next)

DifferenceReturn(g) ==
    /\ At(g, "Difference", "loop")
    /\ Top(g).i > Len(Top(g).list)
    /\ Return(g, heap, ResSet(Top(g).u))

\* SymmetricDifference: typematch, then u, _ := s.Difference(t)
SymmetricDifferenceStart(g) ==
    /\ At(g, "SymmetricDifference", "start")
    /\ LET f == Top(g)
           err == typematch(heap, f.s, f.t)
       IN  IF err # "nil" THEN Return(g, heap, ResErr(err))
           ELSE CallFn(g, [f EXCEPT !.pc = "u"], OnSet("Difference", f.s, f.t))

\* SymmetricDifference taking s.Difference(t) a second time where the code
\* takes t.Difference(s).
SymmetricDifferenceVSameOrder(g) ==
    /\ At(g, "SymmetricDifference", "u")
    /\ CallFn(g, [Top(g) EXCEPT !.pc = "v", !.u = Top(g).res.rs],
              OnSet("Difference", Top(g).s, Top(g).t))

\* v, _ := t.Difference(s)
SymmetricDifferenceV(g) ==
    /\ At(g, "SymmetricDifference", "u")
    /\ CallFn(g, [Top(g) EXCEPT !.pc = "v", !.u = Top(g).res.rs],
              OnSet("Difference", Top(g).t, Top(g).s))

\* res, _ := u.Union(v)
SymmetricDifferenceUnion(g) ==
    /\ At(g, "SymmetricDifference", "v")
    /\ CallFn(g, [Top(g) EXCEPT !.pc = "res", !.v = Top(g).res.rs],
              OnSet("Union", Top(g).u, Top(g).res.rs))

SymmetricDifferenceReturn(g) ==
    /\ At(g, "SymmetricDifference", "res")
    /\ Return(g, heap, ResSet(Top(g).res.rs))

\* IsEqual: typematch, then s.Size()
IsEqualStart(g) ==
    /\ At(g, "IsEqual", "start")
    /\ LET f == Top(g)
           err == typematch(heap, f.s, f.t)
       IN  IF err # "nil" THEN Return(g, heap, ResErr(err))
           ELSE CallFn(g, [f EXCEPT !.pc = "sizeS"], OnSelf("Size", f.s))

\* t.Size()
IsEqualSizeT(g) ==
    /\ At(g, "IsEqual", "sizeS")
    /\ CallFn(g, [Top(g) EXCEPT !.pc = "sizeT", !.x = Top(g).res.n],
              OnSelf("Size", Top(g).t))

\* if s.Size() != t.Size() { return false, nil }; u, _ := s.Union(t)
IsEqualUnion(g) ==
    /\ At(g, "IsEqual", "sizeT")
    /\ LET f == Top(g)
       IN  IF f.x # f.res.n THEN Return(g, heap, ResBool(FALSE))
           ELSE CallFn(g, [f EXCEPT !.pc = "union"], OnSet("Union", f.s, f.t))

\* s.Size()
IsEqualSizeS(g) ==
    /\ At(g, "IsEqual", "union")
    /\ CallFn(g, [Top(g) EXCEPT !.pc = "sizeS2", !.u = Top(g).res.rs],
              OnSelf("Size", Top(g).s))

\* u.Size()
IsEqualSizeU(g) ==
    /\ At(g, "IsEqual", "sizeS2")
    /\ CallFn(g, [Top(g) EXCEPT !.pc = "sizeU", !.x = Top(g).res.n],
              OnSelf("Size", Top(g).u))

\* IsEqual without its comparison of s.Size() and u.Size(): sets of one
\* size are equal.
IsEqualReturnUncompared(g) ==
    /\ At(g, "IsEqual", "sizeU")
    /\ Return(g, heap, ResBool(TRUE))

\* if s.Size() != u.Size() { return false, nil }; return true, nil
IsEqualReturn(g) ==
    /\ At(g, "IsEqual", "sizeU")
    /\ Return(g, heap, ResBool(Top(g).x = Top(g).res.n))

\* IsSubset: typematch, then t.List()
IsSubsetStart(g) ==
    /\ At(g, "IsSubset", "start")
    /\ LET f == Top(g)
           err == typematch(heap, f.s, f.t)
       IN  IF err # "nil" THEN Return(g, heap, ResErr(err))
           ELSE CallFn(g, [f EXCEPT !.pc = "list"], OnSelf("List", f.t))

IsSubsetRange(g) ==
    /\ At(g, "IsSubset", "list")
    /\ Local(g, [Top(g) EXCEPT !.pc = "loop", !.list = Top(g).res.l, !.i = 1])

\* for _, item := range t.List() { ok, _ := s.Has(item)
IsSubsetHas(g) ==
    /\ At(g, "IsSubset", "loop")
    /\ LET f == Top(g)
       IN  /\ f.i <= Len(f.list)
           /\ CallFn(g, [f EXCEPT !.pc = "has"], OnItems("Has", f.s, <<f.list[f.i]>>))

\* The loop of IsSubset without its test of ok: it goes on to the next item.
IsSubsetNextUntested(g) ==
    /\ At(g, "IsSubset", "has")
    /\ Local(g, [Top(g) EXCEPT !.pc = "loop", !.i = @ + 1])

\* if !ok { return false, nil } }
IsSubsetNext(g) ==
    /\ At(g, "IsSubset", "has")
    /\ LET f == Top(g)
       IN  IF ~f.res.b THEN Return(g, heap, ResBool(FALSE))
           ELSE Local(g, [f EXCEPT !.pc = "loop", !.i = @ + 1])

\* return true, nil
IsSubsetReturn(g) ==
    /\ At(g, "IsSubset", "loop")
    /\ Top(g).i > Len(Top(g).list)
    /\ Return(g, heap, ResBool(TRUE))

\* IsSuperset: return t.IsSubset(s)
IsSupersetStart(g) ==
    /\ At(g, "IsSuperset", "start")
    /\ CallFn(g, [Top(g) EXCEPT !.pc = "ret"], OnSet("IsSubset", Top(g).t, Top(g).s))

IsSupersetReturn(g) ==
    /\ At(g, "IsSuperset", "ret")
    /\ Return(g, heap, Top(g).res)

(***************************************************************************)
(* Callers.                                                                *)
(***************************************************************************)
\* The table a caller holds after New(kind, items...) returned.
NewTable(kind, items) ==
    IF Len(items) = 0 \/ typecheck(kind, CheckedArgs(items)) # "nil"
    THEN {} ELSE Range(items)

\* New(kind, items...) panics instead of returning.
NewPanics(kind, items) ==
    /\ Len(items) > 0
    /\ typecheck(kind, CheckedArgs(items)) = "nil"
    /\ \E i \in 1..Len(items) : ~Hashable(items[i])

Snapshot(h) == [id \in Slots |-> [kind |-> h[id].kind, m |-> h[id].m]]

Mutators == {"Add", "Remove", "Clear", "Merge", "Separate"}

\* A call as the caller writes it: dst := s.fn(t, items...), or
\* dst := New(kind, items...); dst is NoSet when the result is not kept.
Call(fn, s, t, kind, items, dst) ==
    [fn |-> fn, s |-> s, t |-> t, kind |-> kind, items |-> items, dst |-> dst]

NoCall ==
    [fn |-> "none", s |-> NoSet, t |-> NoSet, kind |-> "Int", items |-> <<>>,
     dst |-> NoSet, pre |-> <<>>, built |-> <<>>, done |-> TRUE, res |-> ResNil,
     rkind |-> "Int", rm |-> {}, seen |-> {}]

\* Goroutine g, running nothing, makes the call c.
Begin(g, c) ==
    /\ stack[g] = <<>>
    /\ stack' = [stack EXCEPT ![g] = <<Frame(c.fn, c.s, c.t, c.kind, c.items)>>]
    /\ hist' = [hist EXCEPT ![g] =
                   [fn |-> c.fn, s |-> c.s, t |-> c.t, kind |-> c.kind,
                    items |-> c.items, dst |-> c.dst, pre |-> Snapshot(heap),
                    built |-> from, done |-> FALSE, res |-> ResNil,
                    rkind |-> "Int", rm |-> {},
                    seen |-> hist[g].seen \cup {Snapshot(heap)}]]
    /\ from' = IF c.fn \in Mutators THEN Invalidate(from, c.s) ELSE from
    /\ UNCHANGED heap

\* The caller goes on: the last call's result is no longer looked at.
Continue(g) ==
    /\ stack[g] = <<>>
    /\ hist[g].fn # "none"
    /\ hist' = [hist EXCEPT ![g] = NoCall]
    /\ UNCHANGED <<heap, stack, from, ncalls>>

\* The calls of the constructor, the mutators and the queries.
BasicCalls ==
    {Call("New", NoSet, NoSet, k, l, d) : k \in Kinds, l \in Lists, d \in Slots}
    \cup {Call(fn, s, NoSet, "Int", l, NoSet) :
             fn \in {"Add", "Remove", "Has"}, s \in Slots, l \in Lists}
    \cup {Call(fn, s, NoSet, "Int", <<>>, NoSet) :
             fn \in {"Size", "Clear", "List"}, s \in Slots}

\* The calls of the methods that take a second set, and Copy. What Union and
\* Copy return is kept in one of the caller's variables.
AlgCalls ==
    {Call(fn, s, t, "Int", <<>>, NoSet) :
        fn \in {"Intersection", "Difference", "SymmetricDifference", "Merge",
                "Separate", "IsEqual", "IsSubset", "IsSuperset"},
        s \in Slots, t \in Slots}
    \cup {Call("Union", s, t, "Int", <<>>, d) : s \in Slots, t \in Slots, d \in Slots}
    \cup {Call("Copy", s, NoSet, "Int", <<>>, d) : s \in Slots, d \in Slots}

\* The calls goroutines make on one set at the same time.
ConcCalls ==
    {Call(fn, 1, NoSet, "Int", l, NoSet) : fn \in {"Add", "Remove", "Has"}, l \in Lists}
    \cup {Call(fn, 1, NoSet, "Int", <<>>, NoSet) : fn \in {"Size", "Clear", "List"}}

\* The state after construction: each of the caller's variables holds the
\* set a New(kind, items...) returned.
Built(k, l) ==
    /\ \A s \in Slots : ~NewPanics(k[s], l[s])
    /\ heap = [id \in Ids |->
                  IF id \in Slots THEN SetObj(k[id], NewTable(k[id], l[id]))
                  ELSE Free]
    /\ from = [s \in Slots |->
                  [op |-> "New", s |-> NoSet, t |-> NoSet, items |-> Range(l[s])]]
    /\ stack = [g \in Goroutines |-> <<>>]
    /\ hist = [g \in Goroutines |-> NoCall]
    /\ ncalls = [g \in Goroutines |-> 0]

\* Each variable holds a New(kind): an empty set of some kind.
Init == \E k \in [Slots -> Kinds] : Built(k, [s \in Slots |-> <<>>])

\* Each variable holds a New(kind, items...).
InitBuilt == \E k \in [Slots -> Kinds], l \in [Slots -> Lists] : Built(k, l)

\* The steps of Add, Remove, Has, Size, Clear and List.
PrimSteps(g) ==
    \/ AddStart(g) \/ AddLock(g) \/ AddLoop(g) \/ AddPanic(g) \/ AddReturn(g)
    \/ RemoveStart(g) \/ RemoveLock(g) \/ RemoveLoop(g) \/ RemovePanic(g)
    \/ RemoveReturn(g)
    \/ HasStart(g) \/ HasRLock(g) \/ HasLoop(g) \/ HasMiss(g) \/ HasPanic(g)
    \/ HasReturn(g)
    \/ SizeRLock(g) \/ SizeReturn(g)
    \/ ClearLock(g) \/ ClearReturn(g)
    \/ ListRLock(g) \/ ListLoop(g) \/ ListReturn(g)

\* The steps of New and of those.
BasicSteps(g) == NewStart(g) \/ NewReturn(g) \/ PrimSteps(g)

\* The steps the two-set methods and Copy take, their callees' included:
\* no argument of theirs is unhashable, and none of them calls Clear.
AlgSteps(g) ==
    \/ NewStart(g) \/ NewReturn(g)
    \/ AddStart(g) \/ AddLock(g) \/ AddLoop(g) \/ AddReturn(g)
    \/ RemoveStart(g) \/ RemoveLock(g) \/ RemoveLoop(g) \/ RemoveReturn(g)
    \/ HasStart(g) \/ HasRLock(g) \/ HasLoop(g) \/ HasMiss(g) \/ HasReturn(g)
    \/ SizeRLock(g) \/ SizeReturn(g)
    \/ ListRLock(g) \/ ListLoop(g) \/ ListReturn(g)
    \/ CopyStart(g) \/ CopyNew(g) \/ CopyReturn(g)
    \/ UnionStart(g) \/ UnionNew(g) \/ UnionList(g) \/ UnionRange(g)
    \/ UnionLoop(g) \/ UnionReturn(g)
    \/ MergeStart(g) \/ MergeRange(g) \/ MergeLoop(g) \/ MergeReturn(g)
    \/ SeparateStart(g) \/ SeparateRange(g) \/ SeparateLoop(g) \/ SeparateReturn(g)
    \/ IntersectionStart(g) \/ IntersectionListS(g) \/ IntersectionRangeS(g)
    \/ IntersectionHasT(g) \/ IntersectionAddS(g) \/ IntersectionListT(g)
    \/ IntersectionRangeT(g) \/ IntersectionHasS(g) \/ IntersectionAddT(g)
    \/ IntersectionReturn(g)
    \/ DifferenceStart(g) \/ DifferenceList(g) \/ DifferenceRange(g)
    \/ DifferenceHas(g) \/ DifferenceAdd(g) \/ DifferenceReturn(g)
    \/ SymmetricDifferenceStart(g) \/ SymmetricDifferenceV(g)
    \/ SymmetricDifferenceUnion(g) \/ SymmetricDifferenceReturn(g)
    \/ IsEqualStart(g) \/ IsEqualSizeT(g) \/ IsEqualUnion(g) \/ IsEqualSizeS(g)
    \/ IsEqualSizeU(g) \/ IsEqualReturn(g)
    \/ IsSubsetStart(g) \/ IsSubsetRange(g) \/ IsSubsetHas(g) \/ IsSubsetNext(g)
    \/ IsSubsetReturn(g)
    \/ IsSupersetStart(g) \/ IsSupersetReturn(g)

\* One caller makes one call after the other.
CallBasic ==
    /\ hist[1].fn = "none"
    /\ \E c \in BasicCalls : Begin(1, c)
    /\ UNCHANGED ncalls

CallAlg ==
    /\ hist[1].fn = "none"
    /\ \E c \in AlgCalls : Begin(1, c)
    /\ UNCHANGED ncalls

\* Goroutine g makes one of its MaxCalls calls.
CallConc(g) ==
    /\ ncalls[g] < MaxCalls
    /\ \E c \in ConcCalls : Begin(g, c)
    /\ ncalls' = [ncalls EXCEPT ![g] = @ + 1]

\* Sequential use of the constructor, the mutators and the queries.
Next == CallBasic \/ Continue(1) \/ BasicSteps(1)

Spec == Init /\ [][Next]_vars

\* Sequential use of the two-set methods and Copy.
NextAlg == CallAlg \/ Continue(1) \/ AlgSteps(1)

SpecAlg == InitBuilt /\ [][NextAlg]_vars

\* The calls made on a set and on its copy.
CopyCalls ==
    {Call("Copy", s, NoSet, "Int", <<>>, d) : s \in Slots, d \in Slots}
    \cup {Call(fn, s, NoSet, "Int", l, NoSet) :
             fn \in {"Add", "Remove"}, s \in Slots, l \in Lists}
    \cup {Call("Clear", s, NoSet, "Int", <<>>, NoSet) : s \in Slots}
    \cup {Call("IsEqual", s, t, "Int", <<>>, NoSet) : s \in Slots, t \in Slots}

\* The steps of those calls, their callees' included.
CopySteps(g) ==
    \/ NewStart(g) \/ NewReturn(g)
    \/ AddStart(g) \/ AddLock(g) \/ AddLoop(g) \/ AddPanic(g) \/ AddReturn(g)
    \/ RemoveStart(g) \/ RemoveLock(g) \/ RemoveLoop(g) \/ RemovePanic(g)
    \/ RemoveReturn(g)
    \/ SizeRLock(g) \/ SizeReturn(g)
    \/ ClearLock(g) \/ ClearReturn(g)
    \/ ListRLock(g) \/ ListLoop(g) \/ ListReturn(g)
    \/ CopyStart(g) \/ CopyNew(g) \/ CopyReturn(g)
    \/ UnionStart(g) \/ UnionNew(g) \/ UnionList(g) \/ UnionRange(g)
    \/ UnionLoop(g) \/ UnionReturn(g)
    \/ IsEqualStart(g) \/ IsEqualSizeT(g) \/ IsEqualUnion(g) \/ IsEqualSizeS(g)
    \/ IsEqualSizeU(g) \/ IsEqualReturn(g)

CallCopy ==
    /\ hist[1].fn = "none"
    /\ \E c \in CopyCalls : Begin(1, c)
    /\ UNCHANGED ncalls

\* Sequential use of Copy, of the mutators and of IsEqual.
NextCopy == CallCopy \/ Continue(1) \/ CopySteps(1)

SpecCopy == InitBuilt /\ [][NextCopy]_vars

\* The calls goroutines make on two sets at the same time, a set being its
\* own argument in some: the first goroutine merges while the others merge,
\* unite or compare. What Union returns is dropped.
LiveCalls(g) ==
    {Call(fn, s, t, "Int", <<>>, NoSet) :
        fn \in IF g = 1 THEN {"Merge"} ELSE {"Merge", "Union", "IsEqual"},
        s \in Slots, t \in Slots}

\* The steps of those calls, their callees' included.
LiveSteps(g) ==
    \/ NewStart(g) \/ NewReturn(g)
    \/ AddStart(g) \/ AddLock(g) \/ AddLoop(g) \/ AddReturn(g)
    \/ SizeRLock(g) \/ SizeReturn(g)
    \/ ListRLock(g) \/ ListLoop(g) \/ ListReturn(g)
    \/ UnionStart(g) \/ UnionNew(g) \/ UnionList(g) \/ UnionRange(g)
    \/ UnionLoop(g) \/ UnionReturn(g)
    \/ MergeStart(g) \/ MergeRange(g) \/ MergeLoop(g) \/ MergeReturn(g)
    \/ IsEqualStart(g) \/ IsEqualSizeT(g) \/ IsEqualUnion(g) \/ IsEqualSizeS(g)
    \/ IsEqualSizeU(g) \/ IsEqualReturn(g)

\* Goroutine g makes one of its MaxCalls calls.
CallLive(g) ==
    /\ ncalls[g] < MaxCalls
    /\ \E c \in LiveCalls(g) : Begin(g, c)
    /\ ncalls' = [ncalls EXCEPT ![g] = @ + 1]

\* Both variables hold sets built, without a failed insertion, from at most
\* MaxLiveItems items.
InitLive ==
    /\ \E k \in [Slots -> Kinds],
          l \in [Slots -> {x \in Lists : Len(x) <= MaxLiveItems}] : Built(k, l)
    /\ \A s \in Slots : from[s].items = heap[s].m

NextLive == \E g \in Goroutines : CallLive(g) \/ LiveSteps(g)

\* Concurrent use of two sets by Merge, Union and IsEqual: a goroutine that
\* can take a step is scheduled in the end.
SpecLive ==
    /\ InitLive
    /\ [][NextLive]_vars
    /\ \A g \in Goroutines : WF_vars(LiveSteps(g))

\* The first goroutine merges or separates two sets while the others read
\* them.
InPlaceCalls(g) ==
    IF g = 1
    THEN {Call(fn, s, t, "Int", <<>>, NoSet) :
             fn \in {"Merge", "Separate"}, s \in Slots, t \in Slots}
    ELSE {Call("Has", s, NoSet, "Int", l, NoSet) : s \in Slots, l \in Lists}
         \cup {Call(fn, s, NoSet, "Int", <<>>, NoSet) :
                  fn \in {"Size", "List"}, s \in Slots}

\* The steps of those calls, their callees' included.
InPlaceSteps(g) ==
    \/ AddStart(g) \/ AddLock(g) \/ AddLoop(g) \/ AddReturn(g)
    \/ RemoveStart(g) \/ RemoveLock(g) \/ RemoveLoop(g) \/ RemoveReturn(g)
    \/ HasStart(g) \/ HasRLock(g) \/ HasLoop(g) \/ HasMiss(g) \/ HasPanic(g)
    \/ HasReturn(g)
    \/ SizeRLock(g) \/ SizeReturn(g)
    \/ ListRLock(g) \/ ListLoop(g) \/ ListReturn(g)
    \/ MergeStart(g) \/ MergeRange(g) \/ MergeLoop(g) \/ MergeReturn(g)
    \/ SeparateStart(g) \/ SeparateRange(g) \/ SeparateLoop(g) \/ SeparateReturn(g)

\* Goroutine g makes one of its MaxCalls calls.
CallInPlace(g) ==
    /\ ncalls[g] < MaxCalls
    /\ \E c \in InPlaceCalls(g) : Begin(g, c)
    /\ ncalls' = [ncalls EXCEPT ![g] = @ + 1]

\* Both variables hold sets built without a failed insertion.
InitInPlace ==
    /\ InitBuilt
    /\ \A s \in Slots : from[s].items = heap[s].m

NextInPlace == \E g \in Goroutines : CallInPlace(g) \/ InPlaceSteps(g)

\* Merge and Separate beside the readers of their receiver.
SpecInPlace == InitInPlace /\ [][NextInPlace]_vars

\* The first goroutine calls Union, dropping what it returns, while the
\* others add and remove one element at a time.
BesideUnionCalls(g) ==
    IF g = 1
    THEN {Call("Union", s, t, "Int", <<>>, NoSet) : s \in Slots, t \in Slots}
    ELSE {Call(fn, s, NoSet, "Int", <<x>>, NoSet) :
             fn \in {"Add", "Remove"}, s \in Slots, x \in IntElems}

\* The steps of those calls, their callees' included.
BesideUnionSteps(g) ==
    \/ NewStart(g) \/ NewReturn(g)
    \/ AddStart(g) \/ AddLock(g) \/ AddLoop(g) \/ AddReturn(g)
    \/ RemoveStart(g) \/ RemoveLock(g) \/ RemoveLoop(g) \/ RemoveReturn(g)
    \/ ListRLock(g) \/ ListLoop(g) \/ ListReturn(g)
    \/ UnionStart(g) \/ UnionNew(g) \/ UnionList(g) \/ UnionRange(g)
    \/ UnionLoop(g) \/ UnionReturn(g)

\* The first goroutine makes its call, another one of its MaxChanges calls.
CallBesideUnion(g) ==
    /\ ncalls[g] < (IF g = 1 THEN 1 ELSE MaxChanges)
    /\ \E c \in BesideUnionCalls(g) : Begin(g, c)
    /\ ncalls' = [ncalls EXCEPT ![g] = @ + 1]

NextBesideUnion == \E g \in Goroutines : CallBesideUnion(g) \/ BesideUnionSteps(g)

\* Union beside Add and Remove on its operands.
SpecBesideUnion == InitLive /\ [][NextBesideUnion]_vars

\* Concurrent use of one set: the second variable holds New(Int), and the
\* first was built without a failed insertion.
InitConc ==
    /\ InitBuilt
    /\ heap[2].kind = "Int"
    /\ from[2].items = {}
    /\ from[1].items = heap[1].m

NextConc == \E g \in Goroutines : CallConc(g) \/ PrimSteps(g)

SpecConc == InitConc /\ [][NextConc]_vars


(***************************************************************************)
(* What a finished call shows.                                             *)
(***************************************************************************)
\* Goroutine g's last top-level call was fn and has returned or panicked.
Done(g, fn) == hist[g].fn = fn /\ hist[g].done
\* It returned (it did not panic).
Returned(g, fn) == Done(g, fn) /\ hist[g].res.err # "panic"
\* Every item of the call has the kind of the set it was made on.
ItemsMatch(g) ==
    \A i \in 1..Len(hist[g].items) :
        KindOf(hist[g].items[i]) = hist[g].pre[hist[g].s].kind
\* The receiver's table when the call was made.
PreTable(g) == hist[g].pre[hist[g].s].m

(***************************************************************************)
(* C1. On a set of kind K, Add(x) of an element x of kind K returns no     *)
(* error and x is then a member: a Has(x) made while x is a member returns *)
(* true and no error.                                                      *)
(***************************************************************************)
C1_AddThenHas ==
    /\ Done(1, "Add") /\ Len(hist[1].items) = 1 /\ ItemsMatch(1)
          => /\ hist[1].res.err = "nil"
             /\ hist[1].items[1] \in heap[hist[1].s].m
    /\ Done(1, "Has") /\ Len(hist[1].items) = 1 /\ ItemsMatch(1)
          /\ hist[1].items[1] \in PreTable(1)
          => hist[1].res.err = "nil" /\ hist[1].res.b

(***************************************************************************)
(* C2 (I1). Every element of a set's table has the set's kind.             *)
(***************************************************************************)
C2_TableKinds ==
    \A id \in Ids : heap[id].live =>
        \A x \in heap[id].m : KindOf(x) = heap[id].kind

(***************************************************************************)
(* C3. An Add with an item of another kind than the set's returns a        *)
(* TypeViolation and leaves the table as it was.                           *)
(***************************************************************************)
C3_AddRejectsAll ==
    Returned(1, "Add") /\ ~ItemsMatch(1)
        => /\ hist[1].res.err = "TypeViolation"
           /\ heap[hist[1].s].m = PreTable(1)

(***************************************************************************)
(* C5. New, Add, Remove and Clear with items of the set's kind act on the  *)
(* table as insertion, deletion and clearing act on a mathematical set,    *)
(* and Size and List show the table: each call takes the set the table     *)
(* stood for to the set the reference operation gives.                     *)
(***************************************************************************)
C5_RefinesSet ==
    /\ Done(1, "New") /\ (\A i \in 1..Len(hist[1].items) :
                              KindOf(hist[1].items[i]) = hist[1].kind)
          => /\ hist[1].res.err = "nil"
             /\ hist[1].rm = Range(hist[1].items)
    /\ Done(1, "Add") /\ ItemsMatch(1)
          => heap[hist[1].s].m = PreTable(1) \cup Range(hist[1].items)
    /\ Done(1, "Remove") /\ ItemsMatch(1)
          => heap[hist[1].s].m = PreTable(1) \ Range(hist[1].items)
    /\ Done(1, "Clear") => heap[hist[1].s].m = {}
    /\ Done(1, "Size") => hist[1].res.n = Cardinality(PreTable(1))
    /\ Done(1, "List") => Range(hist[1].res.l) = PreTable(1)


(***************************************************************************)
(* The two-set methods, called by one goroutine.                           *)
(***************************************************************************)
TwoSetMethods ==
    {"Union", "Intersection", "Difference", "SymmetricDifference", "Merge",
     "Separate", "IsEqual", "IsSubset", "IsSuperset"}
\* The tables of the receiver and of the argument when the call was made.
TableS(g) == PreTable(g)
TableT(g) == hist[g].pre[hist[g].t].m
SameKind(g) == hist[g].pre[hist[g].s].kind = hist[g].pre[hist[g].t].kind
\* Every variable holds the set, of the kind and with the table, it held
\* when the call was made.
Untouched(g) ==
    \A x \in Slots : /\ heap[x].m = hist[g].pre[x].m
                     /\ heap[x].kind = hist[g].pre[x].kind
\* The call returned a set of its own: none of the caller's.
FreshSet(g) == hist[g].res.err = "nil" /\ hist[g].res.rs \notin Slots \cup {NoSet}

(***************************************************************************)
(* C4. Called on sets of two kinds, each of Union, Intersection,           *)
(* Difference, SymmetricDifference, Merge, Separate, IsEqual, IsSubset and *)
(* IsSuperset returns a KindMismatch (and no set, and false), and the      *)
(* tables of both sets are as they were.                                   *)
(***************************************************************************)
C4_KindMismatch ==
    \A fn \in TwoSetMethods :
        Done(1, fn) /\ ~SameKind(1)
            => /\ hist[1].res = ResErr("KindMismatch")
               /\ Untouched(1)

\* Merge returned from a set of kind Int and a set of kind Slice that has
\* elements.
C4_Witness ==
    /\ Done(1, "Merge") /\ ~SameKind(1)
    /\ TableT(1) # {}
    /\ hist[1].res.err = "KindMismatch"

(***************************************************************************)
(* C8. For A = New(K, a...) and B = New(K, b...), a and b lists of         *)
(* elements of kind K, A.Union(B) returns no error and a set whose         *)
(* elements are the values of a and of b (so that A.Union(B) and           *)
(* B.Union(A) have the same elements).                                     *)
(***************************************************************************)
C8_UnionOfNew ==
    LET c == hist[1]
        a == c.built[c.s]
        b == c.built[c.t]
    IN  Returned(1, "Union") /\ SameKind(1)
        /\ a.op = "New" /\ b.op = "New"
        /\ (\A x \in a.items \cup b.items : KindOf(x) = c.pre[c.s].kind)
            => /\ FreshSet(1)
               /\ c.rm = a.items \cup b.items

(***************************************************************************)
(* C9. For sets of one kind, A.Intersection(B) returns a set of its own,   *)
(* of that kind, whose elements are those in both A and B, and leaves A    *)
(* and B as they were; when B is what A.Union(_) returned, the elements    *)
(* are those of A.                                                         *)
(***************************************************************************)
C9_Intersection ==
    LET c == hist[1]
    IN  Done(1, "Intersection") /\ SameKind(1)
            => /\ FreshSet(1)
               /\ c.rkind = c.pre[c.s].kind
               /\ c.rm = TableS(1) \cap TableT(1)
               /\ Untouched(1)
               /\ (c.built[c.t].op = "Union" /\ c.built[c.t].s = c.s
                      => c.rm = TableS(1))

\* A.Intersection(A.Union(B)) returned, A with elements and B with an
\* element A lacks.
C9_Witness ==
    LET c == hist[1]
    IN  /\ Done(1, "Intersection") /\ SameKind(1)
        /\ c.built[c.t].op = "Union" /\ c.built[c.t].s = c.s
        /\ c.rm # {}
        /\ TableT(1) # TableS(1)

(***************************************************************************)
(* C10. For sets of one kind, A.SymmetricDifference(B) returns a set of    *)
(* its own whose elements are those in exactly one of A and B; it is the   *)
(* Union of what A.Difference(B) and B.Difference(A) return, Difference    *)
(* returning the elements of its receiver that its argument lacks and      *)
(* Union the elements of either; A.Difference(A) is empty.                 *)
(***************************************************************************)
C10_SymmetricDifference ==
    LET c == hist[1]
        A == TableS(1)
        B == TableT(1)
    IN  /\ Done(1, "SymmetricDifference") /\ SameKind(1)
            => /\ FreshSet(1)
               /\ c.rm = (A \ B) \cup (B \ A)
               /\ Untouched(1)
        /\ At(1, "SymmetricDifference", "res")
            => /\ heap[Top(1).u].m = A \ B
               /\ heap[Top(1).v].m = B \ A
               /\ heap[Top(1).res.rs].m = heap[Top(1).u].m \cup heap[Top(1).v].m
        /\ Done(1, "Difference") /\ SameKind(1)
            => /\ FreshSet(1)
               /\ c.rm = A \ B
               /\ (c.s = c.t => c.rm = {})
        /\ Done(1, "Union") /\ SameKind(1)
            => FreshSet(1) /\ c.rm = A \cup B

\* SymmetricDifference returned from two sets that each have an element the
\* other lacks.
C10_Witness ==
    /\ Done(1, "SymmetricDifference") /\ SameKind(1)
    /\ TableS(1) \ TableT(1) # {}
    /\ TableT(1) \ TableS(1) # {}
    /\ hist[1].rm = TableS(1) \cup TableT(1)

(***************************************************************************)
(* Goroutines calling the methods of one set at the same time.             *)
(***************************************************************************)
\* Goroutine g is between Lock and Unlock of set id.
Writing(g, id) ==
    /\ stack[g] # <<>>
    /\ Top(g).s = id
    /\ \/ Top(g).fn \in {"Add", "Remove"} /\ Top(g).pc = "loop"
       \/ Top(g).fn = "Clear" /\ Top(g).pc = "make"

\* Goroutine g is between RLock and RUnlock of set id.
Reading(g, id) ==
    /\ stack[g] # <<>>
    /\ Top(g).s = id
    /\ \/ Top(g).fn \in {"Has", "List"} /\ Top(g).pc = "loop"
       \/ Top(g).fn = "Size" /\ Top(g).pc = "read"

\* A goroutine between Lock and Unlock holds the guard alone.
GuardExclusive ==
    \A id \in Slots, g \in Goroutines :
        Writing(g, id)
            => /\ heap[id].w = g
               /\ heap[id].r = 0
               /\ \A o \in Goroutines \ {g} : ~Writing(o, id) /\ ~Reading(o, id)

\* A goroutine between RLock and RUnlock is counted by the guard, which no
\* writer holds.
GuardShared ==
    \A id \in Slots, g \in Goroutines :
        Reading(g, id) => heap[id].w = NoSet /\ heap[id].r > 0

\* The table with all the items of goroutine g's Add or Remove call applied
\* to the table the call found.
TableAfter(g) ==
    IF hist[g].fn = "Add" THEN TableS(g) \cup Range(hist[g].items)
    ELSE TableS(g) \ Range(hist[g].items)

\* The table the first of the goroutines' calls found.
TableAtFirst ==
    CHOOSE m \in {TableS(g) : g \in Goroutines} :
        \A o \in Goroutines : m \subseteq TableS(o)

(***************************************************************************)
(* C6. When every goroutine has called Add once on one set, each with one  *)
(* element of the set's kind, the elements distinct and none of them in    *)
(* the set before, and all the calls have returned, then none returned an  *)
(* error and the set's size is its size before plus the number of          *)
(* goroutines.                                                             *)
(***************************************************************************)
C6_ConcurrentAdds ==
    (/\ \A g \in Goroutines : ncalls[g] = 1 /\ Returned(g, "Add")
     /\ \A g \in Goroutines :
           /\ Len(hist[g].items) = 1
           /\ ItemsMatch(g)
           /\ hist[g].items[1] \notin TableAtFirst
     /\ \A g, o \in Goroutines : g # o => hist[g].items # hist[o].items)
        => /\ \A g \in Goroutines : hist[g].res.err = "nil"
           /\ Cardinality(heap[1].m) =
                 Cardinality(TableAtFirst) + Cardinality(Goroutines)

(***************************************************************************)
(* C7. Add, Remove and Clear change the table holding the guard alone,     *)
(* Has, Size and List read it holding the guard shared; so a goroutine     *)
(* that reads while another's single Add or Remove call is the only        *)
(* mutation finds the table that call found or the table with all of the   *)
(* call's items applied, never one with some of them applied.              *)
(***************************************************************************)
C7_AllOrNothing ==
    /\ GuardExclusive
    /\ GuardShared
    /\ \A r, w \in Goroutines :
          (/\ r # w
           /\ Reading(r, 1)
           /\ hist[w].fn \in {"Add", "Remove"}
           /\ \A o \in Goroutines \ {w} : hist[o].fn \notin Mutators
           /\ \A o \in Goroutines : ncalls[o] <= 1)
              => heap[1].m \in {PreTable(w), TableAfter(w)}

(***************************************************************************)
(* Subset, superset and equality.                                          *)
(***************************************************************************)
\* The variable x held, when the call was made, what y.Union(_) returned,
\* and neither set was changed since.
UnionOf(g, x, y) ==
    hist[g].built[x].op = "Union" /\ hist[g].built[x].s = y

(***************************************************************************)
(* C11. For sets A and B of one kind, IsSubset called on A with the        *)
(* argument A.Union(B) returns true.                                       *)
(***************************************************************************)
C11_IsSubsetOfUnion ==
    Done(1, "IsSubset") /\ SameKind(1) /\ UnionOf(1, hist[1].t, hist[1].s)
        => hist[1].res.err = "nil" /\ hist[1].res.b

(***************************************************************************)
(* C11, as the code has it.  For sets A and B of one kind, IsSubset called *)
(* on A.Union(B) with the argument A returns true, and so does IsSuperset  *)
(* called on A with the argument A.Union(B).                               *)
(***************************************************************************)
C11_UnionHasSubset ==
    /\ Done(1, "IsSubset") /\ SameKind(1) /\ UnionOf(1, hist[1].s, hist[1].t)
          => hist[1].res.err = "nil" /\ hist[1].res.b /\ Untouched(1)
    /\ Done(1, "IsSuperset") /\ SameKind(1) /\ UnionOf(1, hist[1].t, hist[1].s)
          => hist[1].res.err = "nil" /\ hist[1].res.b /\ Untouched(1)

\* IsSubset returned from A.Union(B) and A, A with elements and B with an
\* element A lacks.
C11_Witness ==
    /\ Done(1, "IsSubset") /\ SameKind(1) /\ UnionOf(1, hist[1].s, hist[1].t)
    /\ TableT(1) # {}
    /\ TableS(1) # TableT(1)
    /\ hist[1].res.b

(***************************************************************************)
(* C12. For sets s and t of one kind, s.IsSubset(t) returns true exactly   *)
(* when every element of t is in s, and s.IsSuperset(t) returns what       *)
(* t.IsSubset(s) returns: true exactly when every element of s is in t.    *)
(***************************************************************************)
C12_IsSubset ==
    /\ Done(1, "IsSubset") /\ SameKind(1)
          => /\ hist[1].res = ResBool(TableT(1) \subseteq TableS(1))
             /\ Untouched(1)
    /\ Done(1, "IsSuperset") /\ SameKind(1)
          => /\ hist[1].res = ResBool(TableS(1) \subseteq TableT(1))
             /\ Untouched(1)
    /\ At(1, "IsSuperset", "ret")
          => Top(1).res.err = "KindMismatch"
             \/ Top(1).res = ResBool(TableS(1) \subseteq TableT(1))

\* IsSubset returned true for an argument with elements, the receiver
\* having one more.
C12_Witness ==
    /\ Done(1, "IsSubset") /\ SameKind(1)
    /\ TableT(1) # {}
    /\ TableT(1) # TableS(1)
    /\ hist[1].res.b

(***************************************************************************)
(* C13. For sets s and t of one kind, s.IsEqual(t) returns true exactly    *)
(* when s and t have the same elements, each a subset of the other, and    *)
(* false otherwise; it changes neither set.                                *)
(***************************************************************************)
C13_IsEqual ==
    Done(1, "IsEqual") /\ SameKind(1)
        => /\ hist[1].res = ResBool(TableS(1) = TableT(1))
           /\ (hist[1].res.b <=> /\ TableS(1) \subseteq TableT(1)
                                 /\ TableT(1) \subseteq TableS(1))
           /\ Untouched(1)

\* IsEqual returned false for two sets of one size: the size of their
\* union decided.
C13_Witness ==
    /\ Done(1, "IsEqual") /\ SameKind(1)
    /\ Cardinality(TableS(1)) = Cardinality(TableT(1))
    /\ TableS(1) # TableT(1)
    /\ ~hist[1].res.b

(***************************************************************************)
(* C14. Copy returns a set of its own, of the receiver's kind and with the *)
(* receiver's elements, so that A.IsEqual of the copy is true; an Add,     *)
(* Remove or Clear on the copy leaves A's elements as they were, and one   *)
(* on A leaves the copy's.                                                 *)
(***************************************************************************)
\* The variable x held, when the call was made, what y.Copy() returned, and
\* neither set was changed since.
CopyOf(g, x, y) ==
    x # y /\ hist[g].built[x].op = "Copy" /\ hist[g].built[x].s = y

C14_Copy ==
    LET c == hist[1]
    IN  /\ Done(1, "Copy")
            => /\ FreshSet(1)
               /\ c.rkind = c.pre[c.s].kind
               /\ c.rm = TableS(1)
               /\ heap[c.s].m = TableS(1)
               /\ heap[c.dst].m = TableS(1) /\ heap[c.dst].kind = c.rkind
        /\ Done(1, "IsEqual") /\ (CopyOf(1, c.t, c.s) \/ CopyOf(1, c.s, c.t))
            => c.res = ResBool(TRUE)
        /\ \A fn \in {"Add", "Remove", "Clear"} :
              Done(1, fn) => \A y \in Slots \ {c.s} :
                                 /\ heap[y].m = c.pre[y].m
                                 /\ heap[y].kind = c.pre[y].kind

\* An Add on the copy of a set with elements returned, the copy having an
\* element more and the set the elements it had.
C14_Witness ==
    LET c == hist[1]
    IN  /\ Returned(1, "Add")
        /\ \E y \in Slots :
              /\ CopyOf(1, c.s, y)
              /\ c.pre[y].m # {}
              /\ c.pre[c.s].m = c.pre[y].m
              /\ heap[y].m = c.pre[y].m
              /\ heap[c.s].m # heap[y].m

(***************************************************************************)
(* C15. For sets s and t of one kind, s.Merge(t) returns no error and      *)
(* leaves in s the elements that were in s or in t; s.Separate(t) returns  *)
(* no error and leaves in s the elements that were in s and not in t; a t  *)
(* that is another set than s is left as it was.                           *)
(***************************************************************************)
C15_MergeSeparate ==
    LET c == hist[1]
        others == \A y \in Slots \ {c.s} :
                      heap[y].m = c.pre[y].m /\ heap[y].kind = c.pre[y].kind
    IN  /\ Done(1, "Merge") /\ SameKind(1)
            => /\ c.res = ResNil
               /\ heap[c.s].m = TableS(1) \cup TableT(1)
               /\ heap[c.s].kind = c.pre[c.s].kind
               /\ others
        /\ Done(1, "Separate") /\ SameKind(1)
            => /\ c.res = ResNil
               /\ heap[c.s].m = TableS(1) \ TableT(1)
               /\ heap[c.s].kind = c.pre[c.s].kind
               /\ others

\* Merge returned, s having had elements, and t an element s lacked.
C15_Witness ==
    /\ Done(1, "Merge") /\ SameKind(1)
    /\ hist[1].s # hist[1].t
    /\ TableS(1) # {}
    /\ TableT(1) \ TableS(1) # {}
    /\ heap[hist[1].t].m = TableT(1)

(***************************************************************************)
(* C16. No method takes a guard while it holds one: the guards a goroutine *)
(* holds are the one of the Add, Remove, Clear, Has, Size or List it is    *)
(* in, between its Lock and its Unlock.  So every call a goroutine has     *)
(* made returns, whatever the other goroutines do, s.Merge(s), s.Union(s)  *)
(* and s.IsEqual(s) included, and A.Merge(B) beside B.Merge(A).            *)
(***************************************************************************)
\* Every guard is held by the goroutines between its Lock or RLock and
\* their Unlock, and by no other.
GuardsHeldInside ==
    \A id \in Ids :
        /\ heap[id].r = Cardinality({g \in Goroutines : Reading(g, id)})
        /\ \A g \in Goroutines : heap[id].w = g <=> Writing(g, id)

InPlaceAfter(g) ==
    IF hist[g].fn = "Merge" THEN TableS(g) \cup TableT(g)
    ELSE TableS(g) \ TableT(g)

C17_InPlaceAtomic ==
    \A r, w \in Goroutines :
        (/\ r # w
         /\ hist[w].fn \in {"Merge", "Separate"}
         /\ SameKind(w)
         /\ hist[w].s # hist[w].t
         /\ \A o \in Goroutines \ {w} : hist[o].fn \notin Mutators
         /\ \A o \in Goroutines : ncalls[o] <= 1
         /\ Reading(r, hist[w].s))
            => heap[hist[w].s].m \in {TableS(w), InPlaceAfter(w)}

(***************************************************************************)
(* C18. Union takes the elements of its argument at one instant and those  *)
(* of its receiver at another: beside goroutines that add to and remove    *)
(* from its operands, what A.Union(B) returns is B's table of one instant  *)
(* together with A's of one instant, and there is a run in which it is the *)
(* union of A and B of no instant of the call.                             *)
(***************************************************************************)
\* The tables found at the instants of the run: goroutine 1 changes no table
\* of the two variables, and each one-element Add or Remove of goroutine 2
\* changes one at most once, so they are those the calls found at their start
\* and those of now.
Instants ==
    UNION {hist[g].seen : g \in Goroutines} \cup {Snapshot(heap)}

\* The union of the receiver and the argument of goroutine 1's call, as
\* they are in the tables T.
UnionAt(T) == T[hist[1].s].m \cup T[hist[1].t].m

C18_UnionOfTwoInstants ==
    Done(1, "Union") /\ SameKind(1)
        => /\ FreshSet(1)
           /\ \E X \in Instants, Y \in Instants :
                  hist[1].rm = X[hist[1].t].m \cup Y[hist[1].s].m

\* Union returned, the other goroutine having made its calls, a set that is
\* the union of its operands at no instant of the call.
C18_Witness ==
    /\ Done(1, "Union") /\ SameKind(1)
    /\ ncalls[2] = MaxChanges /\ hist[2].done
    /\ \A T \in Instants : hist[1].rm # UnionAt(T)

(***************************************************************************)
(* C19. New(kind, items...) checks each item before it inserts it: when    *)
(* the first item of another kind than the set's is at position k, the set *)
(* New returns holds the items before position k and none from k on.       *)
(***************************************************************************)
\* The position of the first of the call's items that is of another kind
\* than kind, and one past the last position when there is none.
FirstMismatch(items, kind) ==
    IF \E i \in 1..Len(items) : KindOf(items[i]) # kind
    THEN CHOOSE i \in 1..Len(items) :
             /\ KindOf(items[i]) # kind
             /\ \A j \in 1..(i - 1) : KindOf(items[j]) = kind
    ELSE Len(items) + 1

C19_NewInsertsUpToMismatch ==
    LET c == hist[1]
        k == FirstMismatch(c.items, c.kind)
    IN  Returned(1, "New") /\ k <= Len(c.items)
            => c.rm = {c.items[i] : i \in 1..(k - 1)}

(***************************************************************************)
(* C19, as the code has it.  New hands all its items to one Add, which     *)
(* checks before it inserts, and drops Add's error: the set New returns,   *)
(* of the kind given, holds all of the items or none of them.              *)
(***************************************************************************)
C19_NewInsertsAllOrNone ==
    LET c == hist[1]
    IN  Returned(1, "New")
            => /\ FreshSet(1)
               /\ c.rkind = c.kind
               /\ c.rm \in {{}, Range(c.items)}
               /\ heap[c.dst].m = c.rm /\ heap[c.dst].kind = c.kind

\* New returned from two items, the first of the set's kind and the second
\* not: the set is empty.
C19_Witness ==
    LET c == hist[1]
    IN  /\ Returned(1, "New")
        /\ Len(c.items) = 2
        /\ FirstMismatch(c.items, c.kind) = 2
        /\ c.rm = {}

====
